---- MODULE Spec2Model ----
(***************************************************************************)
(* Invoice verification: the signatory registry (main.py), the call to the *)
(* inference service (claude_api.py) and the result dialog (main.py).      *)
(*                                                                         *)
(* Text is modelled at word level: a string is a sequence of words joined  *)
(* by single spaces, and `a in b` of Python is Contains(b, a), contiguous  *)
(* sub-sequence.  The words that matter to the code are                    *)
(*   "STATUS" for "STATUS:", "TAKIN" for the Hebrew "in order",            *)
(*   "LO_TAKIN" for "not in order", "LO_BARUR" for "not clear",            *)
(* and the signatory names.  The Hebrew "not" occurs in replies only in    *)
(* front of one of these two words, so each pair is one word here.         *)
(***************************************************************************)
EXTENDS Integers, Sequences, FiniteSets, TLC

VARIABLES
    signatories,              \* st.session_state.signatories: ordered dict name -> amount
    signature_images,         \* st.session_state.signature_images: ordered dict name -> image
    file,                     \* authorized_signatories.json on disk
    backups,                  \* backups/signatories_backup_<ts>.json: ts -> content
    clock,                    \* datetime.now(), in whole seconds
    verification_result,      \* st.session_state.verification_result
    status_code,              \* st.session_state.status_code
    verification_in_progress, \* st.session_state.verification_in_progress
    show_verification_modal,  \* st.session_state.show_verification_modal
    api_calls,                \* history: external requests issued
    attempts,                 \* history: verifications started while none was in progress
    request,                  \* history: content_items of the last request sent
    nsaves,                   \* history: calls of save_signatories
    last_op                   \* history: the last registry handler and how it ended

vars == <<signatories, signature_images, file, backups, clock, verification_result,
          status_code, verification_in_progress, show_verification_modal,
          api_calls, attempts, request, nsaves, last_op>>

regVars == <<signatories, signature_images, file, backups, clock, nsaves, last_op>>

sessVars == <<verification_result, status_code, verification_in_progress,
              show_verification_modal, api_calls, attempts, request>>

----------------------------------------------------------------------------
(* Bounds of the model *)

MaxTextLen == 4
MaxCalls == 2
MaxAmount == 1
MaxSaves == 1
MaxSavesDeep == 7
MaxSavesReq == 2

(* Program constants *)

KeepBackups == 5
MinAmount == 0

Names == {"A", "B"}
Words == {"STATUS", "TAKIN", "LO_TAKIN", "LO_BARUR", "A"}
Modes == {"RGB", "RGBA"}

----------------------------------------------------------------------------
(* Strings *)

RECURSIVE SeqsUpTo(_, _)
SeqsUpTo(S, n) ==
    IF n = 0 THEN {<< >>}
    ELSE LET shorter == SeqsUpTo(S, n - 1)
         IN  shorter \cup {Append(s, w) : s \in {t \in shorter : Len(t) = n - 1}, w \in S}

Texts == SeqsUpTo(Words, MaxTextLen)

Contains(text, pat) ==
    \E i \in 0..(Len(text) - Len(pat)) : SubSeq(text, i + 1, i + Len(pat)) = pat

\* The words of a signatory name.
NameWords(name) == << name >>

None == << "None" >>

Truthy(s) == s # None /\ s # << >>

----------------------------------------------------------------------------
(* Ordered dicts (Python dict keeps insertion order): sequences of <<key, value>> *)

Keys(d) == [i \in 1..Len(d) |-> d[i][1]]

Has(d, k) == \E i \in 1..Len(d) : d[i][1] = k

Get(d, k) == d[CHOOSE i \in 1..Len(d) : d[i][1] = k][2]

\* d[k] = v: an existing key keeps its position, a new key goes last.
Put(d, k, v) ==
    IF Has(d, k) THEN [i \in 1..Len(d) |-> IF d[i][1] = k THEN <<k, v>> ELSE d[i]]
    ELSE Append(d, <<k, v>>)

\* del d[k]
Del(d, k) == SelectSeq(d, LAMBDA e : e[1] # k)

----------------------------------------------------------------------------
(* claude_api.call_claude_api: parsing of the reply *)

MarkerValid == << "STATUS", "TAKIN" >>
MarkerInvalid == << "STATUS", "LO_TAKIN" >>
MarkerUnclear == << "STATUS", "LO_BARUR" >>

\* status_code of a reply whose text is result_text
ParseStatus(result_text) ==
    IF Contains(result_text, MarkerValid) THEN "valid"
    ELSE IF Contains(result_text, MarkerInvalid) THEN "invalid"
    ELSE IF Contains(result_text, MarkerUnclear) THEN "unclear"
    ELSE "unclear"

\* What the service call can come back with.  An "ok" reply is a 2xx JSON body,
\* with or without a "content" list, whose text items concatenate to text.
FailCauses == {"network", "timeout", "http", "json", "other"}

Replies ==
    [kind : {"ok"}, content : {TRUE}, text : Texts, cause : {"none"}]
    \cup [kind : {"ok"}, content : {FALSE}, text : {<< >>}, cause : {"none"}]
    \cup [kind : {"fail"}, content : {FALSE}, text : {<< >>}, cause : FailCauses]

\* The dict call_claude_api returns (or the exception it lets through, raised = TRUE).
CallResult(reply) ==
    IF reply.kind = "ok"
    THEN [raised |-> FALSE, error |-> None, text |-> reply.text,
          status_code |-> IF reply.content THEN ParseStatus(reply.text) ELSE "unclear"]
    ELSE IF reply.cause \in {"network", "timeout", "http"}
    THEN [raised |-> FALSE, error |-> << "ERR_SEND", reply.cause >>, text |-> << >>,
          status_code |-> "error"]
    ELSE IF reply.cause = "json"
    THEN [raised |-> FALSE, error |-> << "ERR_READ" >>, text |-> << >>,
          status_code |-> "error"]
    ELSE [raised |-> TRUE, error |-> << reply.cause >>, text |-> << >>,
          status_code |-> "error"]

\* The encoding of the invoice failed: returned before any request is sent.
EncodeFailure ==
    [raised |-> FALSE, error |-> << "ERR_ENCODE" >>, text |-> << >>, status_code |-> "error"]

\* "<span style='color:red'> error: ... </span>", what main.py stores for a failure
ErrorSpan(error) == << "SPAN_ERROR" >> \o error \o << "END_SPAN" >>

\* main.py: what the dialog stores from the returned dict
StoredResult(r) == IF r.error # None THEN ErrorSpan(r.error) ELSE r.text

StoredStatus(r) == IF r.error # None THEN "error" ELSE r.status_code

----------------------------------------------------------------------------
(* claude_api.call_claude_api: composition of the request *)

\* encode_image: an RGBA image is converted to RGB; JPEG cannot be written
\* from a palette image (mode "P"), image.save raises
EncodeOk(mode) == mode \in {"RGB", "RGBA"}

\* a content item; lines: the roster lines of the instruction text
TextPart(about, lines) == [type |-> "text", about |-> about, lines |-> lines]

ImagePart(about) == [type |-> "image", about |-> about, lines |-> << >>]

\* the first item: the instruction with one line per signatory, in the order
\* of signatories.items()
Instruction(sigs) == TextPart("instruction", sigs)

\* the loop over signature_images.items(): the label is appended first, the
\* image only when its encoding succeeds
RECURSIVE SignatureParts(_)
SignatureParts(imgs) ==
    IF imgs = << >> THEN << >>
    ELSE LET name == Head(imgs)[1]
             img == Head(imgs)[2]
             own == IF img = "None" THEN << >>
                    ELSE IF EncodeOk(img) THEN << TextPart(name, << >>), ImagePart(name) >>
                    ELSE << TextPart(name, << >>) >>
         IN  own \o SignatureParts(Tail(imgs))

\* content_items of the request for an invoice that encodes
ComposeRequest(sigs, imgs) ==
    << Instruction(sigs), ImagePart("invoice") >> \o SignatureParts(imgs)

----------------------------------------------------------------------------
(* main.show_verification_results: the result branch of the dialog *)

WordsInvalid == << "LO_TAKIN" >>
WordsUnclear == << "LO_BARUR" >>
CannotIdentify == << "LO_NITAN_LEZAHOT" >>
NoSignatureFound == << "LO_ZUHTA_HATIMA" >>
NotFound == "NOT_FOUND"

\* status shown; the stored status_code is not consulted
DialogStatus(result_text) ==
    IF Contains(result_text, WordsInvalid) THEN "invalid"
    ELSE IF Contains(result_text, WordsUnclear) THEN "unclear"
    ELSE "valid"

\* the first roster name, in iteration order, that occurs in the text
FirstMatch(result_text, sigs) ==
    LET hits == {i \in 1..Len(sigs) : Contains(result_text, NameWords(sigs[i][1]))}
    IN  IF hits = {} THEN NotFound
        ELSE sigs[CHOOSE i \in hits : \A j \in hits : i <= j][1]

\* signatory shown.  `"..." or "..." in result_text` is the truth value of a
\* non-empty string literal or-ed with the membership test.
DialogSignatory(result_text, sigs) ==
    IF Len(CannotIdentify) > 0 \/ Contains(result_text, NoSignatureFound)
    THEN NotFound
    ELSE FirstMatch(result_text, sigs)

\* The result branch renders (modal open, no verification running, a non-empty result).
Shown == show_verification_modal /\ ~verification_in_progress /\ Truthy(verification_result)

shown_status == DialogStatus(verification_result)

shown_signatory == DialogSignatory(verification_result, signatories)

----------------------------------------------------------------------------
(* The registry file and its backups *)

AbsentFile == [st |-> "absent", data |-> << >>, ver |-> 0]

\* data: the JSON object, in key order; ver: history, the number of complete writes
JsonFile(data, ver) == [st |-> "json", data |-> data, ver |-> ver]

\* open(..., 'w') truncated the file and json.dump did not finish
PartialFile(ver) == [st |-> "partial", data |-> << >>, ver |-> ver]

NoBackups == [t \in {} |-> AbsentFile]

\* the file extension save_signatories records for an image, "none" when both saves fail
SigPath(mode, out) ==
    IF out = "ok" THEN (IF mode = "RGBA" THEN "png" ELSE "jpg")
    ELSE IF out = "alt" THEN "png"
    ELSE "none"

\* signatories_data
SaveData(sigs, imgs, io) ==
    [i \in 1..Len(sigs) |->
        [name |-> sigs[i][1],
         max_amount |-> sigs[i][2],
         path |-> IF Has(imgs, sigs[i][1]) /\ Get(imgs, sigs[i][1]) # "None"
                  THEN SigPath(Get(imgs, sigs[i][1]), io[sigs[i][1]])
                  ELSE "none"]]

\* backups[:-6] in place of backups[:-5]: one backup too many is kept
OldBackupsKeepSix(stamps) ==
    {t \in stamps : Cardinality({u \in stamps : u > t}) > KeepBackups}

\* sorted(os.listdir(BACKUPS_DIR))[:-5]: every backup with at least 5 newer ones
OldBackups(stamps) ==
    {t \in stamps : Cardinality({u \in stamps : u > t}) >= KeepBackups}

\* shutil.copy2(SIGNATORIES_FILE, backup_file): a file of the same name is overwritten
CopyToBackup(f, bks, now) ==
    [t \in (DOMAIN bks) \cup {now} |-> IF t = now THEN f ELSE bks[t]]

RemoveBackups(bks, gone) == [t \in (DOMAIN bks) \ gone |-> bks[t]]

\* The backups backup_signatories_file tries to remove when it runs at `now`.
ToRemove(f, bks, now) ==
    IF f.st = "absent" THEN {} ELSE OldBackups((DOMAIN bks) \cup {now})

\* backup_signatories_file at time now; copy = "fail": copy2 raises;
\* stuck: the backups whose os.remove raises (swallowed).
BackupResult(f, bks, now, copy, stuck) ==
    IF f.st = "absent" THEN [raised |-> FALSE, backups |-> bks]
    ELSE IF copy = "fail" THEN [raised |-> TRUE, backups |-> bks]
    ELSE [raised |-> FALSE,
          backups |-> RemoveBackups(CopyToBackup(f, bks, now),
                                    ToRemove(f, bks, now) \ stuck)]

\* with open(SIGNATORIES_FILE, 'w') ...: json.dump(...)
\*   "ok": written in full;  "open_fail": open raises, the file is untouched;
\*   "dump_fail": the file was truncated by open and the dump did not finish.
WriteResult(f, data, wr) ==
    IF wr = "ok" THEN JsonFile(data, f.ver + 1)
    ELSE IF wr = "open_fail" THEN f
    ELSE PartialFile(f.ver)

\* save_signatories(signatories, signature_images): the whole body is one try block
SaveResult(sigs, imgs, f, bks, now, copy, stuck, io, wr) ==
    LET b == BackupResult(f, bks, now, copy, stuck)
    IN  IF b.raised
        THEN [ok |-> FALSE, file |-> f, backups |-> b.backups]
        ELSE [ok |-> wr = "ok",
              file |-> WriteResult(f, SaveData(sigs, imgs, io), wr),
              backups |-> b.backups]

\* load_signatories() that skips an entry without 'signature_image_path'
\* (the roster line placed inside the `if 'signature_image_path' in data:`)
LoadResultImagesOnly(f, opened) ==
    IF f.st # "json" THEN [signatories |-> << >>, signature_images |-> << >>]
    ELSE LET withImg == SelectSeq(f.data, LAMBDA e : e.path # "none")
             loaded == SelectSeq(withImg, LAMBDA e : opened[e.name] # "missing")
         IN  [signatories |-> [i \in 1..Len(withImg) |->
                                 <<withImg[i].name, withImg[i].max_amount>>],
              signature_images |-> [i \in 1..Len(loaded) |->
                                      <<loaded[i].name, opened[loaded[i].name]>>]]

\* load_signatories(): (signatories, signature_images).  opened[name] is what
\* safe_open_image gives for the stored path: a mode, "None", or "missing" file.
LoadResult(f, opened) ==
    IF f.st # "json" THEN [signatories |-> << >>, signature_images |-> << >>]
    ELSE [signatories |-> [i \in 1..Len(f.data) |-> <<f.data[i].name, f.data[i].max_amount>>],
          signature_images |->
              LET withImg == SelectSeq(f.data,
                                 LAMBDA e : e.path # "none" /\ opened[e.name] # "missing")
              IN  [i \in 1..Len(withImg) |-> <<withImg[i].name, opened[withImg[i].name]>>]]

\* load_signatories() when reading the file raises (the file cannot be opened
\* or read, or an entry has no 'max_amount'): the except branch returns ({}, {})
LoadFailed == [signatories |-> << >>, signature_images |-> << >>]

----------------------------------------------------------------------------
(* Initial state: a fresh session, the roster loaded from the registry file *)

Entry(name, amount) == [name |-> name, max_amount |-> amount, path |-> "none"]

InitFiles ==
    {AbsentFile,
     JsonFile(<< Entry("A", 1) >>, 0),
     JsonFile(<< Entry("A", 1), Entry("B", 2) >>, 0),
     JsonFile(<< Entry("B", 2), Entry("A", 1) >>, 0)}

\* history record of a handler: its inputs, how it ended, and how the copy to
\* the backup, the removals and the write of its save went
OpRecord(op, name, amount) ==
    [op |-> op, name |-> name, amount |-> amount, result |-> "rejected",
     copy |-> "none", wr |-> "skipped", stuck |-> FALSE, removed |-> 0]

NoOp == OpRecord("none", "", 0)

Init ==
    /\ file \in InitFiles
    /\ backups = NoBackups
    /\ clock = 1
    /\ \E loaded \in {LoadResult(file, [n \in Names |-> "missing"]), LoadFailed} :
          /\ signatories = loaded.signatories
          /\ signature_images = loaded.signature_images
    /\ verification_result = None
    /\ status_code = "unclear"
    /\ verification_in_progress = FALSE
    /\ show_verification_modal = FALSE
    /\ api_calls = 0
    /\ attempts = 0
    /\ request = << >>
    /\ nsaves = 0
    /\ last_op = NoOp

----------------------------------------------------------------------------
(* The registry handlers of the sidebar *)

\* What the environment may do during a save: the seconds gone by since the
\* last one (tick), the outcomes of shutil.copy2, of img.save (first try,
\* alternative format, both fail) and of the JSON write, and whether os.remove
\* may fail.
\* EnvFull: every failure of the file system, saves in different seconds.
EnvFull ==
    [tick |-> {1}, copy |-> {"ok", "fail"}, io |-> {"ok", "alt", "fail"},
     wr |-> {"ok", "open_fail", "dump_fail"}, stuck |-> TRUE]

\* EnvDeep: saves in the same or a later second, copies and removals that may
\* fail, writes that succeed.
EnvDeep ==
    [tick |-> {0, 1}, copy |-> {"ok", "fail"}, io |-> {"ok"}, wr |-> {"ok"},
     stuck |-> TRUE]

\* the uploaded reference signature: none, an image of a mode, or a file
\* safe_open_image cannot open
Uploads == {"none", "unopenable"} \cup Modes

\* The ways one call of save_signatories can go at time now: the copy fails
\* (nothing else is tried), or it succeeds (or there is no file to copy), some
\* removals fail, and the write and the image saves end one way or another.
AllOk == [n \in Names |-> "ok"]

SaveOutcomes(imgs, env, now) ==
    LET rm == IF env.stuck THEN SUBSET ToRemove(file, backups, now) ELSE {{}}
        ios == {f \in [Names -> env.io] : \A n \in Names : ~Has(imgs, n) => f[n] = "ok"}
    IN  (IF file.st # "absent" /\ "fail" \in env.copy
         THEN {[copy |-> "fail", stuck |-> {}, io |-> AllOk, wr |-> "skipped"]}
         ELSE {})
        \cup [copy : {IF file.st = "absent" THEN "none" ELSE "ok"}, stuck : rm,
              io : {AllOk}, wr : env.wr \ {"ok"}]
        \cup [copy : {IF file.st = "absent" THEN "none" ELSE "ok"}, stuck : rm,
              io : ios, wr : env.wr \cap {"ok"}]

\* save_signatories(sigs, imgs) as called by a handler; op: the handler's record.
\* The session roster is the dict the handler already mutated.
Save(sigs, imgs, op, env) ==
    \E now \in {clock + d : d \in env.tick} :
      \E o \in SaveOutcomes(imgs, env, now) :
        LET r == SaveResult(sigs, imgs, file, backups, now, o.copy, o.stuck, o.io, o.wr)
        IN  /\ signatories' = sigs
            /\ signature_images' = imgs
            /\ file' = r.file
            /\ backups' = r.backups
            /\ clock' = now
            /\ nsaves' = nsaves + 1
            /\ last_op' = [op EXCEPT !.result = IF r.ok THEN "saved" ELSE "save_failed",
                                     !.copy = o.copy,
                                     !.wr = o.wr,
                                     !.stuck = o.stuck # {},
                                     !.removed =
                                         IF o.copy = "ok"
                                         THEN Cardinality(ToRemove(file, backups, now) \ o.stuck)
                                         ELSE 0]

\* `new_amount >= 0` in place of `new_amount > 0`: a zero amount goes through
AcceptsZero(new_name, new_amount) == new_name # "" /\ new_amount >= 0

\* `if new_name and new_amount > 0`
Accepts(new_name, new_amount) == new_name # "" /\ new_amount > 0

\* the add/update button
Upsert(new_name, new_amount, new_signature, env) ==
    LET op == OpRecord("upsert", new_name, new_amount)
    IN  /\ UNCHANGED sessVars
        /\ IF Accepts(new_name, new_amount)
           THEN IF new_signature = "unopenable"
                THEN /\ signatories' = Put(signatories, new_name, new_amount)
                     /\ last_op' = [op EXCEPT !.result = "not_saved"]
                     /\ UNCHANGED <<signature_images, file, backups, clock, nsaves>>
                ELSE Save(Put(signatories, new_name, new_amount),
                          IF new_signature = "none" THEN signature_images
                          ELSE Put(signature_images, new_name, new_signature),
                          op, env)
           ELSE /\ last_op' = op
                /\ UNCHANGED <<signatories, signature_images, file, backups, clock, nsaves>>

\* the remove button of a listed signatory
Remove(name, env) ==
    /\ Has(signatories, name)
    /\ UNCHANGED sessVars
    /\ Save(Del(signatories, name), Del(signature_images, name),
            OpRecord("remove", name, 0), env)

----------------------------------------------------------------------------
(* The verification session *)

Invoices == {"RGB", "BAD"}

\* The verify button.  It is rendered whenever there is a roster, an invoice and
\* an API key; verification_in_progress is not consulted.  The run that follows
\* the click enters the in-progress branch of the dialog and, unless the invoice
\* cannot be encoded, blocks in requests.post.  A click while a run is blocked
\* there stops that run at its next Streamlit command once the call has
\* returned `first`: a successful reply is stored first (no Streamlit command
\* lies between), a failure is not (st.error comes first); the flag stays set and
\* the new run issues the request again.
StartVerification(inv, first) ==
    LET r == CallResult(first)
        kept == verification_in_progress /\ ~r.raised /\ r.error = None
    IN  /\ signatories # << >>
        /\ show_verification_modal' = TRUE
        /\ attempts' = IF verification_in_progress THEN attempts ELSE attempts + 1
        /\ IF inv = "BAD"
           THEN /\ verification_result' = StoredResult(EncodeFailure)
                /\ status_code' = StoredStatus(EncodeFailure)
                /\ verification_in_progress' = FALSE
                /\ api_calls' = api_calls
                /\ request' = request
           ELSE /\ verification_result' = IF kept THEN StoredResult(r) ELSE verification_result
                /\ status_code' = IF kept THEN StoredStatus(r) ELSE status_code
                /\ verification_in_progress' = TRUE
                /\ api_calls' = api_calls + 1
                /\ request' = ComposeRequest(signatories, signature_images)
        /\ UNCHANGED regVars

\* requests.post returns or raises; the dialog stores the outcome and reruns
ApiReturn(reply) ==
    LET r == CallResult(reply)
    IN  /\ verification_in_progress
        /\ verification_result' = StoredResult(r)
        /\ status_code' = StoredStatus(r)
        /\ verification_in_progress' = FALSE
        /\ UNCHANGED <<show_verification_modal, api_calls, attempts, request>>
        /\ UNCHANGED regVars

\* the close button of the result branch
CloseDialog ==
    /\ Shown
    /\ show_verification_modal' = FALSE
    /\ UNCHANGED <<verification_result, status_code, verification_in_progress,
                   api_calls, attempts, request>>
    /\ UNCHANGED regVars

----------------------------------------------------------------------------
(* Specifications *)

AnyReply == CHOOSE r \in Replies : r.kind = "fail"

NextSession ==
    \/ /\ IF verification_in_progress THEN api_calls < MaxCalls ELSE attempts < MaxCalls
       /\ \E inv \in Invoices :
            \E first \in (IF verification_in_progress THEN Replies ELSE {AnyReply}) :
               StartVerification(inv, first)
    \/ \E reply \in Replies : ApiReturn(reply)
    \/ CloseDialog

NextRegistry ==
    \/ /\ nsaves < MaxSaves
       /\ \/ \E n \in Names \cup {""}, a \in MinAmount..MaxAmount, s \in Uploads :
                Upsert(n, a, s, EnvFull)
          \/ \E n \in Names : Remove(n, EnvFull)
    \/ /\ nsaves = MaxSaves
       /\ \E n \in Names \cup {""}, a \in MinAmount..MaxAmount :
             ~Accepts(n, a) /\ Upsert(n, a, "none", EnvFull)

NextBackups ==
    /\ nsaves < MaxSavesDeep
    /\ \/ Upsert("A", 1, "none", EnvDeep)
       \/ Remove("A", EnvDeep)

\* EnvOk: the registry file and the backups are written without failure, an
\* image is saved at the first try or in the alternative format, saves in
\* different seconds.
EnvOk ==
    [tick |-> {1}, copy |-> {"ok"}, io |-> {"ok", "alt"}, wr |-> {"ok"}, stuck |-> FALSE]

\* reference signatures uploaded before a verification: none, an RGB image, a
\* palette image (a PNG of mode "P")
UploadsReq == {"none", "RGB", "P"}

\* The roster is edited, then a verification of a readable invoice is started.
NextRequest ==
    \/ /\ nsaves < MaxSavesReq
       /\ \E n \in Names, s \in UploadsReq : Upsert(n, 1, s, EnvOk)
    \/ /\ nsaves < MaxSavesReq
       /\ \E n \in Names : Remove(n, EnvOk)
    \/ /\ api_calls = 0
       /\ StartVerification("RGB", AnyReply)

SpecSession == Init /\ [][NextSession]_vars

SpecRequest == Init /\ [][NextRequest]_vars

SpecRegistry == Init /\ [][NextRegistry]_vars

SpecBackups == Init /\ [][NextBackups]_vars

----------------------------------------------------------------------------
(* Claims about the verdict and the session, under SpecSession *)

\* A verification has finished with a reply of the service (not a failure);
\* verification_result is then the text of the reply.
Completed ==
    /\ ~verification_in_progress
    /\ verification_result # None
    /\ status_code # "error"

NoMarker(text) ==
    /\ ~Contains(text, MarkerValid)
    /\ ~Contains(text, MarkerInvalid)
    /\ ~Contains(text, MarkerUnclear)

\* C1: a reply without any STATUS marker gives the verdict "unclear", in the
\* stored status code and in the status the dialog shows; never "valid".
C1_NoMarkerIsUnclear ==
    (Completed /\ NoMarker(verification_result))
        => /\ status_code = "unclear"
           /\ Shown => shown_status = "unclear"

\* C2: the verdict is a priority cascade over the reply: the invalid marker
\* wins, then the unclear marker, then the valid marker.
C2_InvalidFirstCascade ==
    Completed =>
        status_code =
            IF Contains(verification_result, MarkerInvalid) THEN "invalid"
            ELSE IF Contains(verification_result, MarkerUnclear) THEN "unclear"
            ELSE IF Contains(verification_result, MarkerValid) THEN "valid"
            ELSE "unclear"

\* C3: the signatory shown for a completed attempt is the first roster name,
\* in roster order, that occurs in the reply, and "not found" only when none does.
C3_FirstRosterNameMatched ==
    (Completed /\ Shown)
        => shown_signatory = FirstMatch(verification_result, signatories)

\* C4: an attempt that ended in error (the call failed, or the invoice could
\* not be encoded) never enters text parsing: it is never shown to the user as
\* valid, invalid or unclear.
C4_ErrorNeverAVerdict ==
    (~verification_in_progress /\ status_code = "error")
        => ~(Shown /\ shown_status \in {"valid", "invalid", "unclear"})

\* C5: while a verification is in progress a further start is rejected: no
\* step issues another request, and the session stays in progress with its
\* stored result untouched until the call returns.
C5_SecondStartRejected ==
    [][verification_in_progress
         => /\ api_calls' = api_calls
            /\ verification_in_progress' =>
                 UNCHANGED <<verification_result, status_code>>]_vars

----------------------------------------------------------------------------
(* Claims about the backups, under SpecBackups *)

Stamps == DOMAIN backups

\* the names and limits of a roster / of the registry file
RosterOf(sigs) == {<<sigs[i][1], sigs[i][2]>> : i \in 1..Len(sigs)}

FileRoster(f) == {<<f.data[i].name, f.data[i].max_amount>> : i \in 1..Len(f.data)}

\* C6: after N > 5 mutations, each persisted, exactly 5 backups remain: the
\* copies made before the 5 most recent mutations.
C6_ExactlyFiveMostRecent ==
    (nsaves = file.ver /\ file.ver > KeepBackups)
        => /\ Cardinality(Stamps) = KeepBackups
           /\ {backups[t].ver : t \in Stamps} = (file.ver - KeepBackups)..(file.ver - 1)

----------------------------------------------------------------------------
(* Claims about the registry handlers, under SpecRegistry *)

\* C8: the registry file is replaced atomically: it is never half-written, and
\* a save that fails leaves it as it was.
C8_AtomicWrite ==
    [][/\ file'.st # "partial"
       /\ last_op'.result = "save_failed" => file' = file]_vars

\* C9: a failed backup copy does not block the write: the write is still
\* made, and when it succeeds the file holds the roster of the session.
C9_BackupFailureDoesNotBlock ==
    last_op.copy = "fail"
        => /\ last_op.wr # "skipped"
           /\ last_op.wr = "ok" => (file.st = "json" /\ FileRoster(file) = RosterOf(signatories))

----------------------------------------------------------------------------
(* Claims about saving and loading, under SpecRegistry *)

\* what safe_open_image / os.path.exists can give for each stored path at load
Openings == [Names -> Modes \cup {"None", "missing"}]

\* C11: round trip: after a save that succeeded, loading the registry file
\* gives a roster with the same names and the same limit for each name,
\* whatever happens to the stored images.
C11_RoundTrip ==
    last_op.result = "saved"
        => \A opened \in Openings :
              RosterOf(LoadResult(file, opened).signatories) = RosterOf(signatories)

\* a roster of two signatories, one with a stored reference image, was saved
C11_Witness ==
    /\ last_op.result = "saved"
    /\ Len(signatories) = 2
    /\ \E i \in 1..Len(file.data) : file.data[i].path # "none"
    /\ \E i \in 1..Len(file.data) : file.data[i].path = "none"

----------------------------------------------------------------------------
(* Claims about the composed request, under SpecRequest *)

\* position of a name in a roster
Pos(sigs, name) == CHOOSE i \in 1..Len(sigs) : sigs[i][1] = name

\* the indices of the label parts of a request
Labels(parts) == {i \in 3..Len(parts) : parts[i].type = "text"}

\* the names that have a reference signature
WithReference(imgs) == {imgs[i][1] : i \in {j \in 1..Len(imgs) : imgs[j][2] # "None"}}

\* C12: the parts of a request are ordered: the instruction with the roster
\* in roster order first, the invoice image second, then the parts of the
\* signatories that have a reference signature, in roster order.
C12_PartsInRosterOrder ==
    [][request' # request
         => /\ request'[1] = Instruction(signatories)
            /\ request'[2] = ImagePart("invoice")
            /\ {request'[i].about : i \in Labels(request')} = WithReference(signature_images)
            /\ \A i, j \in Labels(request') :
                 i < j => Pos(signatories, request'[i].about)
                            < Pos(signatories, request'[j].about)]_vars

\* C14: a signatory whose reference image cannot be encoded contributes no
\* part: every label part is immediately followed by the image part of the
\* same signatory.
C14_LabelFollowedByItsImage ==
    [][request' # request
         => \A i \in Labels(request') :
               /\ i < Len(request')
               /\ request'[i + 1] = ImagePart(request'[i].about)]_vars

----------------------------------------------------------------------------
(* Claims about the session as a state machine, under SpecSession *)

\* the state of the session, read from the flags and the result slot
SessionState(in_progress, result, code) ==
    IF in_progress THEN "in_progress"
    ELSE IF result = None THEN "idle"
    ELSE IF code = "error" THEN "error"
    ELSE "complete"

state == SessionState(verification_in_progress, verification_result, status_code)

\* idle -> in_progress -> complete | error, and a new start from complete or
\* error.  A start with an invoice that cannot be encoded passes through
\* in_progress within the one step of the handler and ends in error.
Transitions ==
    {<<"idle", "in_progress">>, <<"in_progress", "complete">>, <<"in_progress", "error">>,
     <<"complete", "in_progress">>, <<"error", "in_progress">>,
     <<"idle", "error">>, <<"complete", "error">>, <<"error", "error">>}

\* C13: the session is a four-state machine with those transitions only:
\* complete and error change only by a new start, a request is sent only on
\* entering in_progress, and an attempt in progress sends no further request
\* and keeps the stored result until the call returns: one request per
\* attempt, no retry.
C13_FourStateMachine ==
    [][LET a == state
           b == SessionState(verification_in_progress', verification_result', status_code')
       IN  /\ a # b => <<a, b>> \in Transitions
           /\ (a = b /\ attempts' = attempts)
                 => UNCHANGED <<verification_result, status_code, api_calls>>
           /\ api_calls' # api_calls
                 => (a # "in_progress" /\ b = "in_progress" /\ api_calls' = api_calls + 1)]_vars

----------------------------------------------------------------------------
(* Claims about the dialog and the registry, under SpecSession and SpecRegistry *)

\* C15: for a successful reply the status the dialog shows equals the
\* status_code computed from the same text by the call.
C15_ShownStatusIsStatusCode ==
    (Completed /\ Shown) => shown_status = status_code

\* C16: every add/update/remove handler that starts with the session roster
\* equal to the registry file, in names and limits, ends with them equal.
C16_RosterEqualsFile ==
    [][FileRoster(file) = RosterOf(signatories)
         => FileRoster(file') = RosterOf(signatories')]_vars

\* C17: an upsert whose write completed never erases the stored entry of
\* another name: every other entry of the registry file is still in it, with
\* its limit.
C17_UpsertKeepsOtherEntries ==
    [][(last_op'.op = "upsert" /\ last_op'.wr = "ok")
         => \A e \in FileRoster(file) :
               e[1] # last_op'.name => e \in FileRoster(file')]_vars

====
